---- MODULE Spec2Model ----
(***************************************************************************)
(* Client side of the libvirt proxy protocol (src/proxy/proxy_client.c).   *)
(*                                                                         *)
(* The client is single threaded and every call blocks: the model has one  *)
(* program position (pc) and one action per blocking system call, each     *)
(* action running the code up to the next blocking call.  The peer (the    *)
(* proxy daemon) and the operating system are the environment: they choose *)
(* the outcome of every connect, write and read.                           *)
(***************************************************************************)
EXTENDS Integers, Sequences, FiniteSets, TLC

(* ---------------------------------------------------------------------- *)
(* Program constants                                                       *)
(* ---------------------------------------------------------------------- *)

\* serial numbers are in 0..4095 (proxy_client.c:336)
SerialMod == 4096
\* char packet[4096] (proxy_client.c:327)
PacketSize == 4096
\* sizeof(virProxyPacket): four unsigned shorts and an 8 byte union; the
\* header declaring it (proxy.h) is not among the source files
HeaderSize == 16
\* PROXY_PROTO_VERSION, declared in proxy.h
PROXY_PROTO_VERSION == 1
\* enum virProxyCommand, declared in proxy.h
VIR_PROXY_NONE == 0
VIR_PROXY_VERSION == 1
\* if (trials < 3) (proxy_client.c:193)
MaxTrials == 3

(* ---------------------------------------------------------------------- *)
(* Bounds of the model                                                     *)
(* ---------------------------------------------------------------------- *)

\* highest descriptor number the process may hold
MaxFd == 4
\* calls that stamp a request, in the general specification
MaxCalls == 2
\* calls that stamp a request, in the serial specification
SerialCalls == 5000
\* the discard counter saturates here (the loop itself has no bound)
MaxDiscards == 2
\* the per-call system call counters saturate here
MaxCount == 2

Conns == {"A", "B"}
NULL == "NULL"

Min(a, b) == IF a < b THEN a ELSE b
Sat(n) == Min(n + 1, MaxCount)

(* ---------------------------------------------------------------------- *)
(* Packets                                                                 *)
(* ---------------------------------------------------------------------- *)

Versions == {PROXY_PROTO_VERSION, PROXY_PROTO_VERSION + 1}
Commands == {VIR_PROXY_NONE, VIR_PROXY_VERSION}
\* commands of the requests that operations send through xenProxyCommand
RequestCommands == {VIR_PROXY_VERSION}
\* declared lengths a peer may send: around the header size and around the
\* size of the receive buffer (len is an unsigned short)
LenVals == {HeaderSize - 1, HeaderSize, HeaderSize + 1,
            PacketSize, PacketSize + 1}
\* payloads a peer may send: a hypervisor version
DataVals == {1002003}

\* memset(&req, 0, sizeof(req))
ZeroPacket == [version |-> 0, command |-> 0, serial |-> 0, len |-> 0,
               data |-> 0]

\* what a caller may find behind a pointer whose target is gone
Garbage == [version |-> 0, command |-> 0, serial |-> 0, len |-> 0,
            data |-> 1]

\* a response serial that is not the request's: the answer to the previous
\* request
StraySerial(s) == (s + SerialMod - 1) % SerialMod

\* the packets the peer may send while the request carries serial s
Responses(s) ==
    { [version |-> v, command |-> c, serial |-> sr, len |-> l, data |-> d] :
        v \in Versions, c \in Commands, sr \in {s, StraySerial(s)},
        l \in LenVals, d \in DataVals }

\* outcomes of read(fd, buf, n): -1, a short count, or all n bytes
ShortCounts(n) == {k \in {0, n - 1} : k >= 0 /\ k < n}
ReadCounts(n) == {-1} \cup ShortCounts(n) \cup {n}

\* a read that returned k of the n bytes asked for: the rest may be on its
\* way (TRUE); a count of 0 is the end of the stream
Chunked(k, n) == IF 0 < k /\ k < n THEN BOOLEAN ELSE {FALSE}

\* outcomes of the header read: the count and, when complete, the packet;
\* more tells that a short count is the first part of a whole, well-formed
\* response to the request
HeaderReads(s) ==
    { r \in [n : {-1} \cup ShortCounts(HeaderSize), pkt : {ZeroPacket},
             more : BOOLEAN] : r.more \in Chunked(r.n, HeaderSize) }
    \cup { [n |-> HeaderSize, pkt |-> p, more |-> FALSE] : p \in Responses(s) }

VARIABLES
    proxy,       \* conn->proxy of each connection
    openFds,     \* descriptors open in the process
    serial,      \* static int serial of xenProxyCommand
    pc,          \* program position
    op,          \* the entry point being executed
    cur,         \* its conn argument
    answerNull,  \* answer == NULL in the running xenProxyCommand
    req,         \* the request buffer (*request)
    packet,      \* char packet[4096], as a packet
    ret,         \* value returned by xenProxyCommand
    result,      \* value returned by the last entry point
    out,         \* the response as the caller of a finished call sees it
    trials,      \* trials of virProxyOpenClientSocket
    io,          \* system calls made by the running entry point
    pre,         \* proxy, serial and openFds when the entry point was called
    stamp,       \* serial written into the running request
    discards,    \* responses discarded by the running xenProxyCommand
    cause,       \* why xenProxyCommand returned
    lastPkt,     \* last header delivered in full
    afterHdr,    \* reads made after the last header was delivered
    lastRead,    \* count returned by the last read (-2: no read yet)
    wr,          \* value returned by virProxyWriteClientSocket (1: not
                 \* called yet)
    sent,        \* bytes that write() took, until the first read (-2: no
                 \* write, or the call has gone on)
    inFlight,    \* the last read was short although the rest of a whole,
                 \* well-formed, matching response is on its way
    owed,        \* bytes consumed from the socket short of (or beyond) the
                 \* end of the packets whose headers were read; 0 on a
                 \* packet boundary
    made,        \* descriptors that socket() returned to the running
                 \* virProxyOpenClientSocket
    opened,      \* descriptor that virProxyOpenClientSocket returned (-1:
                 \* none)
    pid,         \* pid of virProxyForkServer (0: fork() not called)
    child,       \* the process made by that fork()
    exec,        \* what became of execl() in the second generation
    calls,       \* requests stamped so far
    wraps,       \* times the serial went back to 0
    firstStamp,  \* serial of the first request (-1: none yet)
    lastOn,      \* connection -> serial of its last request (-1: none)
    ever         \* connections that were given a socket at some time

connVars == <<proxy, openFds, serial>>
frameVars == <<pc, op, cur, answerNull, req, packet, ret, result, out, trials>>
callVars == <<io, pre, stamp, discards, cause, lastPkt, afterHdr, lastRead, wr,
              sent, inFlight, owed, made, opened>>
spawnVars == <<pid, child, exec>>
histVars == <<calls, wraps, firstStamp, lastOn, ever>>
vars == <<connVars, frameVars, callVars, spawnVars, histVars>>

NoIo == [sockets |-> 0, connects |-> 0, spawns |-> 0, forks |-> 0,
         sleeps |-> 0, writes |-> 0, reads |-> 0, closes |-> 0]


(* ---------------------------------------------------------------------- *)
(* The code as functions of the state                                      *)
(* ---------------------------------------------------------------------- *)

\* the wrap test written with > : the serial reaches 4096
NextSerialLate(s) == IF s + 1 > SerialMod THEN 0 ELSE s + 1

\* the serial incremented twice for one request
NextSerialTwice(s) == IF s + 2 >= SerialMod THEN 0 ELSE s + 2

\* ++serial; if (serial >= 4096) serial = 0;
NextSerial(s) == IF s + 1 >= SerialMod THEN 0 ELSE s + 1

\* virProxyCloseClientSocket: the open descriptors after the call
virProxyCloseClientSocket(fd, fds) == IF fd < 0 THEN fds ELSE fds \ {fd}

\* xenProxyClose on connection c: the handles and the descriptors after the
\* call, and the number of descriptors handed to close()
xenProxyClose(c, px, fds) ==
    IF c = NULL \/ px[c] < 0
    THEN [proxy |-> px, fds |-> fds, closes |-> 0]
    ELSE [proxy |-> [px EXCEPT ![c] = -1],
          fds |-> virProxyCloseClientSocket(px[c], fds),
          closes |-> 1]

\* the way xenProxyCommand goes on after a read: where (next), with which
\* return value (rv), after closing the connection or not (close)
Goes(next, rv, close, why) ==
    [next |-> next, rv |-> rv, close |-> close, why |-> why]

\* the checks without the version test
CheckPacketNoVersion(res, ser) ==
    IF res.len < HeaderSize
    THEN Goes("ret", -1, TRUE, "malformed")
    ELSE IF res.serial # ser
         THEN Goes("hdr", 0, FALSE, "stray")
         ELSE Goes("ret", 0, FALSE, "ok")

\* "do more checks on the incoming packet", the serial test and the return
CheckPacket(res, ser) ==
    IF res.version # PROXY_PROTO_VERSION \/ res.len < HeaderSize
    THEN Goes("ret", -1, TRUE, "malformed")
    ELSE IF res.serial # ser
         THEN Goes("hdr", 0, FALSE, "stray")
         ELSE Goes("ret", 0, FALSE, "ok")

\* answer == NULL: "read in situ", r is the outcome of the read
InSituHeader(r, ser) ==
    IF r.n < 0 THEN Goes("ret", -1, FALSE, "hdr_ioerr")
    ELSE IF r.n # HeaderSize THEN Goes("ret", -1, TRUE, "hdr_short")
    ELSE IF r.pkt.len # HeaderSize THEN Goes("ret", -1, TRUE, "len")
    ELSE CheckPacket(r.pkt, ser)

\* the header of the buffered path without the test against sizeof(packet)
BufferedHeaderNoMax(r, ser) ==
    IF r.n < 0 THEN Goes("ret", -1, FALSE, "hdr_ioerr")
    ELSE IF r.n # HeaderSize THEN Goes("ret", -1, TRUE, "hdr_short")
    ELSE IF r.pkt.len < HeaderSize THEN Goes("ret", -1, TRUE, "len")
    ELSE IF r.pkt.len > HeaderSize THEN Goes("payload", 0, FALSE, "more")
    ELSE CheckPacket(r.pkt, ser)

\* answer != NULL: "read in packet", the header
BufferedHeader(r, ser) ==
    IF r.n < 0 THEN Goes("ret", -1, FALSE, "hdr_ioerr")
    ELSE IF r.n # HeaderSize THEN Goes("ret", -1, TRUE, "hdr_short")
    ELSE IF r.pkt.len < HeaderSize \/ r.pkt.len > PacketSize
         THEN Goes("ret", -1, TRUE, "len")
    ELSE IF r.pkt.len > HeaderSize THEN Goes("payload", 0, FALSE, "more")
    ELSE CheckPacket(r.pkt, ser)

\* the rest of the packet taken as it comes: only a failed read is refused
BufferedPayloadAnyCount(n, res, ser) ==
    IF n < 0
    THEN Goes("ret", -1, TRUE, "payload_ioerr")
    ELSE CheckPacket(res, ser)

\* answer != NULL: the rest of the packet, n is what the read returned
BufferedPayload(n, res, ser) ==
    IF n # res.len - HeaderSize
    THEN Goes("ret", -1, TRUE, IF n < 0 THEN "payload_ioerr"
                                        ELSE "payload_short")
    ELSE CheckPacket(res, ser)

\* *answer = res, where res points into the automatic array packet: once
\* xenProxyCommand has returned the array is gone and what the caller reads
\* through *answer is undefined.  The request buffer of the in-situ path is
\* the caller's own.
AnswerSeen(ansNull, rq, pk) == IF ansNull THEN {rq} ELSE {pk, Garbage}

\* socket(): the lowest free descriptor, -1 when there is none
LowestFree(fds) ==
    IF (0..MaxFd) \ fds = {} THEN -1
    ELSE CHOOSE f \in (0..MaxFd) \ fds : \A g \in (0..MaxFd) \ fds : f <= g


\* memset(&req, 0, sizeof(req)); req.command = cmd; req.len = sizeof(req);
Request(cmd) == [ZeroPacket EXCEPT !.command = cmd, !.len = HeaderSize]

(* ---------------------------------------------------------------------- *)
(* Initial state: the connections exist, cleared to zero as main builds    *)
(* them, and none was given a socket; the process holds its three standard *)
(* descriptors.                                                            *)
(* ---------------------------------------------------------------------- *)

Init ==
    /\ proxy = [c \in Conns |-> 0]
    /\ openFds = {0, 1, 2}
    /\ serial = 0
    /\ pc = "idle" /\ op = "none" /\ cur = NULL /\ answerNull = TRUE
    /\ req = ZeroPacket /\ packet = ZeroPacket
    /\ ret = 0 /\ result = 0 /\ out = ZeroPacket /\ trials = 0
    /\ io = NoIo
    /\ pre = [proxy |-> proxy, serial |-> 0, fds |-> {0, 1, 2}]
    /\ stamp = -1 /\ discards = 0 /\ cause = "none"
    /\ lastPkt = ZeroPacket /\ afterHdr = 0 /\ lastRead = -2 /\ wr = 1
    /\ sent = -2 /\ inFlight = FALSE /\ owed = 0
    /\ made = {} /\ opened = -1
    /\ pid = 0 /\ child = "none" /\ exec = "none"
    /\ calls = 0 /\ wraps = 0
    /\ firstStamp = -1
    /\ lastOn = [c \in Conns |-> -1]
    /\ ever = {}

(* ---------------------------------------------------------------------- *)
(* Pieces shared by the actions                                            *)
(* ---------------------------------------------------------------------- *)

\* bookkeeping of a stamped request: s1 is the serial it carries
Stamped(c, s1) ==
    /\ calls' = calls + 1
    /\ wraps' = IF s1 = 0 THEN wraps + 1 ELSE wraps
    /\ firstStamp' = IF calls = 0 THEN s1 ELSE firstStamp
    /\ lastOn' = [lastOn EXCEPT ![c] = s1]

\* an entry point starts: what it remembers and what it clears
CallReset ==
    /\ pre' = [proxy |-> proxy, serial |-> serial, fds |-> openFds]
    /\ discards' = 0 /\ lastPkt' = ZeroPacket /\ afterHdr' = 0
    /\ lastRead' = -2 /\ inFlight' = FALSE /\ owed' = 0
    /\ made' = {} /\ opened' = -1
    /\ pid' = 0 /\ child' = "none" /\ exec' = "none"
    /\ out' = ZeroPacket /\ packet' = ZeroPacket /\ trials' = 0

\* an entry point that does not (yet) run xenProxyCommand
NoCommand(c, o, nextpc, io1) ==
    /\ op' = o /\ cur' = c /\ answerNull' = TRUE
    /\ pc' = nextpc /\ ret' = 0 /\ cause' = "none"
    /\ req' = ZeroPacket /\ stamp' = -1 /\ io' = io1 /\ wr' = 1 /\ sent' = -2
    /\ UNCHANGED <<serial, calls, wraps, firstStamp, lastOn>>

\* virProxyWriteClientSocket: one write(), whose result is w (an interrupted
\* write is repeated before); -1 when it failed and 0 otherwise
virProxyWriteClientSocket(w) == IF w < 0 THEN -1 ELSE 0

\* xenProxyCommand from its entry to the end of the write: the connected
\* test, the serial, the stamping of the request and the write; w is the
\* result of write().  px holds the handles, io0 the system calls made so
\* far.
CommandEntry(c, o, an, rq, w, px, io0) ==
    /\ op' = o /\ cur' = c /\ answerNull' = an
    /\ IF c = NULL \/ px[c] < 0
       THEN /\ pc' = "ret" /\ ret' = -1 /\ cause' = "unconnected"
            /\ req' = rq /\ stamp' = -1 /\ io' = io0 /\ wr' = 1 /\ sent' = -2
            /\ UNCHANGED <<serial, calls, wraps, firstStamp, lastOn>>
       ELSE /\ serial' = NextSerial(serial)
            /\ req' = [rq EXCEPT !.version = PROXY_PROTO_VERSION,
                                 !.serial = NextSerial(serial)]
            /\ stamp' = NextSerial(serial)
            /\ io' = [io0 EXCEPT !.writes = @ + 1]
            /\ Stamped(c, NextSerial(serial))
            /\ wr' = virProxyWriteClientSocket(w)
            /\ sent' = IF w < 0 THEN 0 ELSE w
            /\ IF virProxyWriteClientSocket(w) < 0
               THEN pc' = "ret" /\ ret' = -1 /\ cause' = "write_ioerr"
               ELSE pc' = "hdr" /\ ret' = 0 /\ cause' = "none"

\* xenProxyCommand goes on as o says after a read; rq and pk are the
\* request buffer and the packet buffer after that read
Outcome(o, rq, pk) ==
    LET cl == IF o.close THEN xenProxyClose(cur, proxy, openFds)
              ELSE [proxy |-> proxy, fds |-> openFds, closes |-> 0]
    IN  /\ proxy' = cl.proxy /\ openFds' = cl.fds
        /\ pc' = o.next /\ ret' = o.rv /\ cause' = o.why
        /\ io' = [io EXCEPT !.reads = Sat(@), !.closes = @ + cl.closes]
        /\ discards' = IF o.why = "stray"
                       THEN Min(discards + 1, MaxDiscards) ELSE discards
        /\ IF o.next = "ret" /\ o.rv = 0
           THEN \E x \in AnswerSeen(answerNull, rq, pk) : out' = x
           ELSE out' = out

(* ---------------------------------------------------------------------- *)
(* Entry points                                                            *)
(* ---------------------------------------------------------------------- *)

\* xenProxyClose(conn)
CloseCall(c) ==
    /\ pc = "idle"
    /\ CallReset
    /\ LET cl == xenProxyClose(c, proxy, openFds)
       IN  /\ proxy' = cl.proxy /\ openFds' = cl.fds
           /\ NoCommand(c, "close", "idle", [NoIo EXCEPT !.closes = cl.closes])
    /\ result' = 0
    /\ UNCHANGED ever

\* xenProxyCommand(conn, request, answer) called by an operation: cmd is the
\* command of the request, an tells whether answer is NULL
CommandCall(c, cmd, an, w) ==
    /\ pc = "idle"
    /\ CallReset
    /\ CommandEntry(c, "command", an, Request(cmd), w, proxy, NoIo)
    /\ result' = 0
    /\ UNCHANGED <<proxy, openFds, ever>>

\* xenProxyGetVersion(conn, &hvVer) up to the write
xenProxyGetVersion(c, w) ==
    /\ pc = "idle"
    /\ CallReset
    /\ IF c = NULL
       THEN NoCommand(c, "version", "idle", NoIo) /\ result' = -1
       ELSE /\ CommandEntry(c, "version", TRUE, Request(VIR_PROXY_VERSION),
                            w, proxy, NoIo)
            /\ result' = 0
    /\ UNCHANGED <<proxy, openFds, ever>>

\* xenProxyInit without the test of conn->proxy: it always opens a socket
xenProxyInitAlwaysOpens(c, w) ==
    /\ pc = "idle"
    /\ CallReset
    /\ IF c = NULL
       THEN NoCommand(c, "init", "idle", NoIo) /\ result' = -1
       ELSE NoCommand(c, "init", "open", NoIo) /\ result' = 0
    /\ UNCHANGED <<proxy, openFds, ever>>

\* xenProxyInit(conn) up to the first system call
xenProxyInit(c, w) ==
    /\ pc = "idle"
    /\ CallReset
    /\ IF c = NULL
       THEN NoCommand(c, "init", "idle", NoIo) /\ result' = -1
       ELSE IF proxy[c] <= 0
            THEN NoCommand(c, "init", "open", NoIo) /\ result' = 0
            ELSE /\ CommandEntry(c, "init", TRUE, Request(VIR_PROXY_NONE),
                                 w, proxy, NoIo)
                 /\ result' = 0
    /\ UNCHANGED <<proxy, openFds, ever>>


(* ---------------------------------------------------------------------- *)
(* Steps of a running entry point                                          *)
(* ---------------------------------------------------------------------- *)

\* xenProxyInit leaves virProxyOpenClientSocket with -1, or stays in it
OpenGoes(nextpc, res, io1, tr) ==
    /\ pc' = nextpc /\ result' = res /\ io' = io1 /\ trials' = tr
    /\ UNCHANGED <<proxy, openFds, ever, op, cur, answerNull, ret, cause, req,
                   serial, stamp, wr, calls, wraps, firstStamp, lastOn>>

\* the descriptors after a failed connect() whose descriptor is not closed
ConnectFailedLeaks(fd, fds) == fds \cup {fd}

\* the descriptors after socket() returned fd and connect() failed: close(fd)
ConnectFailed(fd, fds) == virProxyCloseClientSocket(fd, fds \cup {fd})

\* the test of trials written with <= : one more round
MayRetryOnceMore(tr) == tr <= MaxTrials

\* if (trials < 3): the failed connect is followed by another round
MayRetry(tr) == tr < MaxTrials

\* one round of virProxyOpenClientSocket up to the test of trials: socket()
\* and connect() and, when the connect fails, close().  When the connect
\* succeeds xenProxyInit stores the descriptor and sends the VIR_PROXY_NONE
\* request.  sockOk and connOk are the outcomes of socket() and connect(),
\* w the one of write().
ConnectAttempt(sockOk, connOk, w) ==
    /\ pc = "open"
    /\ LET fd == IF sockOk THEN LowestFree(openFds) ELSE -1
           io1 == [io EXCEPT !.sockets = @ + 1]
           io2 == [io1 EXCEPT !.connects = @ + 1]
           io3 == [io2 EXCEPT !.closes = @ + 1]
       IN  IF fd < 0
           THEN /\ OpenGoes("idle", -1, io1, trials)
                /\ UNCHANGED <<sent, made, opened>>
           ELSE IF connOk
           THEN /\ proxy' = [proxy EXCEPT ![cur] = fd]
                /\ openFds' = openFds \cup {fd}
                /\ ever' = ever \cup {cur}
                /\ made' = made \cup {fd} /\ opened' = fd
                /\ CommandEntry(cur, "init", TRUE, Request(VIR_PROXY_NONE),
                                w, [proxy EXCEPT ![cur] = fd], io2)
                /\ UNCHANGED <<result, trials>>
           ELSE /\ pc' = IF MayRetry(trials) THEN "fork" ELSE "idle"
                /\ result' = IF MayRetry(trials) THEN 0 ELSE -1
                /\ io' = io3
                /\ openFds' = ConnectFailed(fd, openFds)
                /\ made' = made \cup {fd}
                /\ UNCHANGED <<proxy, ever, op, cur, answerNull, ret, cause,
                               req, serial, stamp, wr, calls, wraps,
                               firstStamp, lastOn, trials, sent, opened>>
    /\ UNCHANGED <<pre, discards, lastPkt, afterHdr, lastRead, out, packet,
                   inFlight, owed>>
    /\ UNCHANGED spawnVars

\* virProxyForkServer from its entry to the return of fork(): pathOk tells
\* whether virProxyFindServerPath found the daemon, forkOk whether fork()
\* made a process.  Without a path it returns -1 and so do
\* virProxyOpenClientSocket and xenProxyInit.
ForkServer(pathOk, forkOk) ==
    /\ pc = "fork"
    /\ IF ~pathOk
       THEN /\ OpenGoes("idle", -1, [io EXCEPT !.spawns = @ + 1], trials)
            /\ UNCHANGED spawnVars
       ELSE /\ OpenGoes("wait", 0,
                        [io EXCEPT !.spawns = @ + 1, !.forks = @ + 1], trials)
            /\ pid' = IF forkOk THEN 1 ELSE -1
            /\ child' = IF forkOk THEN "running" ELSE "none"
            /\ exec' = "none"
    /\ UNCHANGED <<pre, discards, lastPkt, afterHdr, lastRead, out, packet,
                   sent, inFlight, owed, made, opened>>

\* the process made by fork(): setsid(), a second fork() whose child calls
\* execl(), and _exit(0) whatever became of the second generation
ChildExits(execOk) ==
    /\ child = "running"
    /\ child' = "zombie"
    /\ exec' = IF execOk THEN "ok" ELSE "failed"
    /\ UNCHANGED <<connVars, frameVars, callVars, histVars, pid>>

\* results of waitpid(pid, &status, 0) for a child in state ch: it blocks
\* while the child runs, a signal interrupts it at any time, it reaps a
\* child that has exited, and it fails when there is no child to wait for
\* (none was made, or the kernel has reaped it already)
WaitResults(ch) ==
    {"eintr"} \cup (IF ch = "zombie" THEN {"reaped", "error"} ELSE {})
              \cup (IF ch = "none" THEN {"error"} ELSE {})

\* the wait that gives up when it is interrupted
AfterWaitNoRetry(r) == "sleep"

\* retry_wait: an interrupted waitpid is repeated, every other result
\* (the pid or an error) ends virProxyForkServer with 0
AfterWait(r) == IF r = "eintr" THEN "wait" ELSE "sleep"

\* virProxyForkServer at waitpid(); once it has returned 0
\* virProxyOpenClientSocket counts the trial
WaitChild(r) ==
    /\ pc = "wait"
    /\ r \in WaitResults(child)
    /\ pc' = AfterWait(r)
    /\ child' = IF r = "eintr" \/ child = "none" THEN child ELSE "reaped"
    /\ trials' = IF AfterWait(r) = "sleep" THEN trials + 1 ELSE trials
    /\ UNCHANGED <<connVars, op, cur, answerNull, req, packet, ret, result, out,
                   callVars, histVars, pid, exec>>

\* goto retry without the usleep
SleepSkipped ==
    /\ pc = "sleep"
    /\ OpenGoes("open", 0, io, trials)
    /\ pid' = 0 /\ child' = "none" /\ exec' = "none"
    /\ UNCHANGED <<pre, discards, lastPkt, afterHdr, lastRead, out, packet,
                   sent, inFlight, owed, made, opened>>

\* usleep(5000 * trials * trials); goto retry;
Sleep ==
    /\ pc = "sleep"
    /\ OpenGoes("open", 0, [io EXCEPT !.sleeps = @ + 1], trials)
    /\ pid' = 0 /\ child' = "none" /\ exec' = "none"
    /\ UNCHANGED <<pre, discards, lastPkt, afterHdr, lastRead, out, packet,
                   sent, inFlight, owed, made, opened>>

\* the read of the header at the label retry; r is what the read delivers
ReadHeader(r) ==
    /\ pc = "hdr"
    /\ LET full == r.n = HeaderSize
           rq == IF answerNull /\ full THEN r.pkt ELSE req
           pk == IF ~answerNull /\ full THEN r.pkt ELSE packet
       IN  /\ req' = rq /\ packet' = pk
           /\ lastPkt' = IF full THEN r.pkt ELSE lastPkt
           /\ afterHdr' = IF full THEN 0 ELSE afterHdr + 1
           /\ lastRead' = r.n
           /\ inFlight' = r.more
           /\ owed' = IF r.n < 0 THEN owed
                      ELSE IF full THEN owed + r.pkt.len - HeaderSize
                      ELSE owed - r.n
           /\ Outcome(IF answerNull THEN InSituHeader(r, serial)
                                    ELSE BufferedHeader(r, serial), rq, pk)
    /\ sent' = -2
    /\ UNCHANGED <<serial, op, cur, answerNull, result, trials, pre, stamp, wr,
                   made, opened>>
    /\ UNCHANGED <<spawnVars, histVars>>

\* the read of the rest of a packet longer than the header; n is the count
\* the read returns, more tells that the rest of the packet follows a short
\* count
ReadPayload(n, more) ==
    /\ pc = "payload"
    /\ afterHdr' = afterHdr + 1
    /\ lastRead' = n
    /\ inFlight' = (more /\ packet.version = PROXY_PROTO_VERSION
                          /\ packet.serial = serial)
    /\ owed' = IF n < 0 THEN owed ELSE owed - n
    /\ Outcome(BufferedPayload(n, packet, serial), req, packet)
    /\ UNCHANGED <<req, packet, lastPkt>>
    /\ UNCHANGED <<serial, op, cur, answerNull, result, trials, pre, stamp, wr,
                   sent, made, opened>>
    /\ UNCHANGED <<spawnVars, histVars>>

\* xenProxyInit without the test of the command of the response
ClosesAfterErrorOnly(o, rv, rq) ==
    CASE o = "init" -> rv < 0
      [] o = "version" -> rv < 0
      [] OTHER -> FALSE

\* what the caller of xenProxyCommand does with its return value
ClosesAfter(o, rv, rq) ==
    CASE o = "init" -> rv < 0 \/ rq.command # VIR_PROXY_NONE
      [] o = "version" -> rv < 0
      [] OTHER -> FALSE

\* xenProxyCommand has returned: the entry point that called it finishes
Return ==
    /\ pc = "ret"
    /\ LET closeIt == ClosesAfter(op, ret, req)
           cl == IF closeIt THEN xenProxyClose(cur, proxy, openFds)
                 ELSE [proxy |-> proxy, fds |-> openFds, closes |-> 0]
       IN  /\ proxy' = cl.proxy /\ openFds' = cl.fds
           /\ io' = [io EXCEPT !.closes = @ + cl.closes]
           /\ result' = IF op = "command" THEN ret
                        ELSE IF closeIt THEN -1 ELSE 0
    /\ pc' = "idle"
    /\ UNCHANGED <<serial, op, cur, answerNull, req, packet, ret, out, trials,
                   pre, stamp, discards, cause, lastPkt, afterHdr, lastRead,
                   wr, sent, inFlight, owed, made, opened>>
    /\ UNCHANGED <<spawnVars, histVars>>

(* ---------------------------------------------------------------------- *)
(* Specifications                                                          *)
(* ---------------------------------------------------------------------- *)

Args == Conns \cup {NULL}
\* results of write() on a request, which is one header long: an error,
\* a part of the request, the whole request
WriteResults == {-1, HeaderSize - 1, HeaderSize}

Next ==
    \/ \E c \in Args : CloseCall(c)
    \/ calls < MaxCalls /\ \E c \in Args, w \in WriteResults : xenProxyInit(c, w)
    \/ calls < MaxCalls /\ \E c \in Args, w \in WriteResults :
           xenProxyGetVersion(c, w)
    \/ calls < MaxCalls /\ \E c \in Args, cmd \in RequestCommands, an \in BOOLEAN,
                              w \in WriteResults : CommandCall(c, cmd, an, w)
    \/ \E sockOk \in BOOLEAN, connOk \in BOOLEAN, w \in WriteResults :
           ConnectAttempt(sockOk, connOk, w)
    \/ \E pathOk \in BOOLEAN, forkOk \in BOOLEAN : ForkServer(pathOk, forkOk)
    \/ \E execOk \in BOOLEAN : ChildExits(execOk)
    \/ \E r \in WaitResults(child) : WaitChild(r)
    \/ Sleep
    \/ \E r \in HeaderReads(serial) : ReadHeader(r)
    \/ \E n \in ReadCounts(packet.len - HeaderSize) :
           \E more \in Chunked(n, packet.len - HeaderSize) : ReadPayload(n, more)
    \/ Return

Spec == Init /\ [][Next]_vars


\* The calls block until the system call returns; a system call that the
\* environment answers does return, so every step of a running entry point
\* is eventually taken.  Nothing is assumed about what the peer sends.
ReadHeaderStep == \E r \in HeaderReads(serial) : ReadHeader(r)
ReadPayloadStep ==
    \E n \in ReadCounts(packet.len - HeaderSize) :
       \E more \in Chunked(n, packet.len - HeaderSize) : ReadPayload(n, more)
ConnectStep ==
    \E sockOk \in BOOLEAN, connOk \in BOOLEAN, w \in WriteResults :
       ConnectAttempt(sockOk, connOk, w)
ForkServerStep == \E pathOk \in BOOLEAN, forkOk \in BOOLEAN : ForkServer(pathOk, forkOk)
ChildStep == \E execOk \in BOOLEAN : ChildExits(execOk)
\* a wait that is interrupted for ever is not one that returns
WaitStep == \E r \in WaitResults(child) \ {"eintr"} : WaitChild(r)

FairSpec ==
    /\ Spec
    /\ WF_vars(ReadHeaderStep) /\ WF_vars(ReadPayloadStep)
    /\ WF_vars(ConnectStep) /\ WF_vars(ForkServerStep) /\ WF_vars(ChildStep)
    /\ WF_vars(WaitStep) /\ WF_vars(Sleep) /\ WF_vars(Return)

\* One connection, a peer that answers every request with the matching
\* response and an operating system that does not fail: the long run of
\* calls that the serial counter needs.
EchoOf(rq) ==
    [n |-> HeaderSize, pkt |-> [rq EXCEPT !.data = 1002003], more |-> FALSE]

SerialNext ==
    \/ calls < SerialCalls /\ proxy["A"] <= 0 /\ xenProxyInit("A", HeaderSize)
    \/ calls < SerialCalls /\ xenProxyGetVersion("A", HeaderSize)
    \/ ConnectAttempt(TRUE, TRUE, HeaderSize)
    \/ ReadHeader(EchoOf(req))
    \/ Return

SerialSpec == Init /\ [][SerialNext]_vars


(* ---------------------------------------------------------------------- *)
(* Vocabulary of the properties                                            *)
(* ---------------------------------------------------------------------- *)

\* a header was delivered in full to the running (or just finished) call
HeaderSeen == lastPkt # ZeroPacket

\* a length the read path accepts: the in-situ path reads into the request
\* buffer, which holds exactly one header
ValidLen(len, an) ==
    IF an THEN len = HeaderSize ELSE len >= HeaderSize /\ len <= PacketSize

WellFormed(p, an) == p.version = PROXY_PROTO_VERSION /\ ValidLen(p.len, an)

\* the last packet arrived whole: its header and, on the buffered path, the
\* bytes that its length announces beyond the header
FullyDelivered ==
    /\ HeaderSeen
    /\ IF ~answerNull /\ lastPkt.len > HeaderSize
       THEN afterHdr = 1 /\ lastRead = lastPkt.len - HeaderSize
       ELSE afterHdr = 0

\* the running call is on a connection that xenProxyInit gave a socket
OnConnected == cur \in ever

\* xenProxyCommand is returning after a matching, well-formed, whole packet
MatchReturned ==
    /\ pc = "ret" /\ OnConnected /\ wr = 0
    /\ FullyDelivered
    /\ WellFormed(lastPkt, answerNull)
    /\ lastPkt.serial = stamp

\* the connection of the running call is as open as when it was called
StillOpen ==
    /\ proxy[cur] >= 0
    /\ pre.proxy[cur] > 0 => proxy[cur] = pre.proxy[cur]

\* the serial that a request sent now on connection c would carry
NextSerialOf(c) == NextSerial(serial)

\* this step stamps a request on connection c
Stamps(c) == calls' = calls + 1 /\ cur' = c

(* ---------------------------------------------------------------------- *)
(* Properties                                                              *)
(* ---------------------------------------------------------------------- *)

\* C1: when the write succeeded and the first response is well formed,
\* whole and carries the serial of the request, xenProxyCommand returns 0,
\* the caller gets that response, and the connection is left open.
C1_MatchingResponseReturned ==
    (MatchReturned /\ discards = 0)
        => (ret = 0 /\ out = lastPkt /\ StillOpen)

\* C2: when one or more well-formed responses with another serial come
\* before the matching one, xenProxyCommand returns 0 and the caller gets
\* the matching response; the discarding neither advanced the serial nor
\* wrote the request again.
C2_StraysThenMatch ==
    (MatchReturned /\ discards >= 1)
        => (ret = 0 /\ out = lastPkt /\ StillOpen
            /\ io.writes = 1 /\ serial = stamp
            /\ stamp = (pre.serial + 1) % SerialMod)

\* C3: the discard loop is bounded: a xenProxyCommand that is reading
\* responses returns in the end, whatever the peer sends.
C3_DiscardLoopEnds == (pc = "hdr" /\ OnConnected) ~> (pc = "ret")

\* C4: a response whose length is below the header size or whose version
\* is not the supported one makes xenProxyCommand fail and closes the
\* connection, on both read paths (once the bytes it asked for are read).
C4_MalformedCloses ==
    (HeaderSeen /\ pc # "payload"
       /\ (lastPkt.len < HeaderSize \/ lastPkt.version # PROXY_PROTO_VERSION))
        => /\ pc \in {"ret", "idle"}
           /\ ret = -1
           /\ proxy[cur] = -1
           /\ pc = "idle" => result = -1

C4_Witness ==
    /\ pc = "ret" /\ OnConnected /\ ~answerNull
    /\ lastPkt.version # PROXY_PROTO_VERSION
    /\ lastPkt.len > HeaderSize /\ lastPkt.len <= PacketSize
    /\ afterHdr = 1 /\ lastRead = lastPkt.len - HeaderSize
    /\ ret = -1 /\ proxy[cur] = -1

\* C5: a response whose length exceeds the 4096 bytes of the buffer makes
\* xenProxyCommand fail and closes the connection, and no read follows the
\* read of its header.
C5_OversizedRejected ==
    (HeaderSeen /\ lastPkt.len > PacketSize)
        => /\ afterHdr = 0
           /\ pc \in {"ret", "idle"}
           /\ ret = -1
           /\ proxy[cur] = -1

C5_Witness ==
    /\ pc = "ret" /\ OnConnected /\ ~answerNull
    /\ lastPkt.len > PacketSize /\ lastPkt.version = PROXY_PROTO_VERSION
    /\ lastPkt.serial = stamp
    /\ io.reads = 1 /\ ret = -1 /\ proxy[cur] = -1

\* C6: when the write failed or a read returned an error, the connection
\* is closed by the time xenProxyCommand returns.
C6_IoErrorCloses ==
    (pc = "ret" /\ OnConnected /\ (wr = -1 \/ lastRead = -1))
        => proxy[cur] = -1

\* C7: every request carries the serial of the one before plus one modulo
\* 4096, serials stay in 0..4095, the serial goes back to 0 once every 4096
\* calls (once in 5000 calls), and the serial of the first request comes
\* back only 4096 calls later.
C7_SerialInv ==
    /\ serial \in 0 .. (SerialMod - 1)
    /\ serial = calls % SerialMod
    /\ stamp # -1 => stamp = serial
    /\ wraps = calls \div SerialMod
    /\ calls = 5000 => wraps = 1
    /\ (calls > 1 /\ stamp = firstStamp) => calls - 1 >= SerialMod

C7_SerialMonotonic ==
    /\ []C7_SerialInv
    /\ [][calls' # calls =>
            /\ calls' = calls + 1
            /\ stamp' = (serial + 1) % SerialMod
            /\ req'.serial = stamp']_vars

C7_Witness == calls = 5000 /\ wraps = 1 /\ serial = 5000 - SerialMod

\* C8 as stated: a request on one connection leaves the next serial of
\* every other connection as it was.
C8_PerConnection ==
    [][\A c \in Conns : Stamps(c) =>
          \A d \in Conns \ {c} : NextSerialOf(d)' = NextSerialOf(d)]_vars

\* C8 amended: the counter is shared: a request on any connection carries
\* the serial after the one of the previous request of the process, and
\* moves the next serial of every connection one further.
C8_ProcessWide ==
    [][\A c \in Conns : Stamps(c) =>
          /\ stamp' = (serial + 1) % SerialMod
          /\ lastOn'[c] = stamp'
          /\ \A d \in Conns :
                NextSerialOf(d)' = (NextSerialOf(d) + 1) % SerialMod]_vars

C8_Witness ==
    /\ lastOn["A"] # -1
    /\ lastOn["B"] = (lastOn["A"] + 1) % SerialMod

\* xenProxyInit is running, or has just run, on a connection that held a
\* socket when it was called
InitOnOpen == op = "init" /\ cur \in Conns /\ pre.proxy[cur] > 0

\* C9 as stated: xenProxyInit on a connection that is already open makes
\* no system call and leaves the handle and the serial alone.
C9_InitNoOp ==
    InitOnOpen => (io = NoIo /\ proxy[cur] = pre.proxy[cur]
                   /\ serial = pre.serial)

\* C9 amended: xenProxyInit on a connection whose handle is positive makes
\* no socket, no connect and starts no daemon; it does send the
\* VIR_PROXY_NONE request (one write, and reads when the write succeeded),
\* which advances the serial by one; the handle is unchanged when the
\* call succeeds and is -1 when it fails.
C9_InitHandshakeOnly ==
    InitOnOpen =>
        /\ io.sockets = 0 /\ io.connects = 0 /\ io.forks = 0 /\ io.sleeps = 0
        /\ io.writes = 1
        /\ serial = (pre.serial + 1) % SerialMod
        /\ (wr = 0 /\ pc \in {"ret", "idle"}) => io.reads >= 1
        /\ pc = "idle" => /\ result \in {0, -1}
                          /\ result = 0 => proxy[cur] = pre.proxy[cur]
                          /\ result = -1 => proxy[cur] = -1

C9_Witness == InitOnOpen /\ pc = "idle" /\ result = 0 /\ io.reads >= 1

\* C10: xenProxyClose closes the descriptor of an open connection once and
\* marks it unconnected; on a connection that is closed, was never
\* connected, or is NULL it closes nothing and changes nothing.
C10_CloseIdempotent ==
    [][\A c \in Args : CloseCall(c) =>
          IF c \in ever /\ proxy[c] >= 0
          THEN /\ proxy'[c] = -1
               /\ openFds' = openFds \ {proxy[c]}
               /\ io'.closes = 1
          ELSE /\ proxy' = proxy
               /\ openFds' = openFds
               /\ io'.closes = 0]_vars

(* ---------------------------------------------------------------------- *)
(* The connect loop and the daemon                                         *)
(* ---------------------------------------------------------------------- *)

\* xenProxyInit is inside virProxyOpenClientSocket
InLoop == pc \in {"open", "fork", "wait", "sleep"}

\* xenProxyInit has left virProxyOpenClientSocket without a socket
OpenFailed ==
    /\ op = "init" /\ pc = "idle" /\ result = -1
    /\ io.sockets >= 1 /\ opened = -1

\* C11 as stated: one call of xenProxyInit makes at most 3 connect
\* attempts.
C11_ThreeAttempts == io.connects <= 3

\* C11 amended: one call of xenProxyInit makes at most 4 connect attempts,
\* the first one and 3 retries; the retries are counted and never exceed
\* 3, and when the fourth attempt fails the call returns -1 without a
\* further attempt, spawn or sleep.
C11_FourAttempts ==
    /\ io.connects <= MaxTrials + 1
    /\ trials <= MaxTrials
    /\ InLoop => io.connects <= MaxTrials
    /\ (io.connects = MaxTrials + 1 /\ opened = -1) =>
           /\ pc = "idle" /\ result = -1
           /\ io.spawns = MaxTrials /\ io.sleeps = MaxTrials

C11_Witness ==
    OpenFailed /\ io.connects = MaxTrials + 1 /\ io.sleeps = MaxTrials

\* C12: virProxyForkServer is called once after each failed connect that is
\* retried and one usleep lies between that call and the next connect; it
\* is not called before the first connect nor after a connect that
\* succeeded.  A connect that succeeds as the third one was preceded by
\* 2 calls of virProxyForkServer and 2 sleeps and is followed by one
\* VIR_PROXY_NONE request.
C12_SpawnBetweenAttempts ==
    /\ pc = "open" =>
           io.connects = trials /\ io.spawns = trials /\ io.sleeps = trials
    /\ pc = "fork" =>
           io.connects = trials + 1 /\ io.spawns = trials
           /\ io.sleeps = trials
    /\ pc = "wait" =>
           io.connects = trials + 1 /\ io.spawns = trials + 1
           /\ io.sleeps = trials
    /\ pc = "sleep" =>
           io.connects = trials /\ io.spawns = trials
           /\ io.sleeps = trials - 1
    /\ io.connects = 0 => io.spawns = 0
    /\ opened >= 0 =>
           /\ ~InLoop
           /\ io.spawns = io.connects - 1 /\ io.sleeps = io.connects - 1
           /\ io.writes = 1
    /\ (opened >= 0 /\ io.connects = 3) =>
           io.spawns = 2 /\ io.sleeps = 2 /\ io.writes = 1

C12_Witness ==
    /\ op = "init" /\ pc = "idle" /\ result = 0 /\ opened >= 0
    /\ io.connects = 3 /\ io.spawns = 2 /\ io.sleeps = 2 /\ io.writes = 1

\* C13: after a xenProxyInit that failed for want of a socket, the next
\* xenProxyCommand on that connection fails without a write or a read and
\* the next xenProxyClose on it closes no descriptor.
C13_FailedInitUnconnected ==
    [][(OpenFailed /\ io.connects >= 1 /\ cur' = cur) =>
          /\ (op' \in {"command", "version"}) =>
                 (/\ io'.writes = 0 /\ io'.reads = 0
                  /\ pc' = "ret" /\ ret' = -1)
          /\ (op' = "close") =>
                 (io'.closes = 0 /\ openFds' = openFds)]_vars

\* the VIR_PROXY_NONE request of xenProxyInit has failed: xenProxyCommand
\* returned an error or the command of the response is another one
HandshakeFailed ==
    /\ op = "init" /\ pc = "idle" /\ wr # 1
    /\ (ret < 0 \/ req.command # VIR_PROXY_NONE)

\* the descriptor that the running xenProxyInit made its request on
InitFd == IF opened >= 0 THEN opened ELSE pre.proxy[cur]

\* C14: when the VIR_PROXY_NONE request fails xenProxyInit closes the
\* connection and returns -1, and once the request is sent the call makes
\* no socket, no connect and does not call virProxyForkServer.
C14_HandshakeFailureCloses ==
    /\ [](HandshakeFailed =>
            /\ result = -1 /\ proxy[cur] = -1
            /\ InitFd \notin openFds)
    /\ []((op = "init" /\ wr # 1) => ~InLoop)
    /\ [][(op = "init" /\ wr # 1 /\ pc # "idle") =>
            /\ io'.sockets = io.sockets /\ io'.connects = io.connects
            /\ io'.spawns = io.spawns /\ io'.forks = io.forks]_vars

C14_Witness ==
    /\ HandshakeFailed /\ opened >= 0
    /\ ret = 0 /\ req.command # VIR_PROXY_NONE
    /\ result = -1 /\ proxy[cur] = -1

\* C15: a virProxyForkServer that finds no executable, or whose fork()
\* fails, ends xenProxyInit with -1 at once: no wait, no sleep, no further
\* connect.
C15_FailedSpawnIsHard ==
    /\ pid = -1 => (pc = "idle" /\ result = -1)
    /\ io.spawns > io.forks =>
           /\ pc = "idle" /\ result = -1
           /\ io.connects = io.spawns /\ io.sleeps = io.spawns - 1

\* C16: a read returns fewer bytes than asked for only at the end of the
\* stream: when the peer delivers a whole, well-formed response to the
\* request in several parts, xenProxyCommand returns 0.
C16_ChunkedResponseRead ==
    (pc = "ret" /\ OnConnected /\ inFlight) => ret = 0

\* C17: virProxyWriteClientSocket returns 0 only when the whole request
\* has been written.
C17_WriteAllOrError ==
    (OnConnected /\ wr = 0 /\ sent # -2) => sent = req.len

\* C18: virProxyForkServer returns only when the process it forked has
\* exited and been reaped, however often the wait is interrupted, and it
\* returns 0 whatever became of execl() in the second generation.
C18_ChildReaped ==
    /\ child \in {"running", "zombie"} => pc = "wait"
    /\ (pc = "sleep" /\ pid > 0) => child = "reaped"
    /\ (exec # "none" /\ pc # "wait") =>
           /\ pc = "sleep" /\ child = "reaped"
           /\ result = 0 /\ io.spawns = trials

C18_Witness ==
    pc = "sleep" /\ pid > 0 /\ child = "reaped" /\ exec = "failed"

\* C19: when xenProxyCommand returns and the connection is open, the bytes
\* it consumed are exactly those of the packets whose headers it read;
\* when they are not, it has closed the connection.
C19_FramingInvariant ==
    (pc = "ret" /\ wr # 1) =>
        /\ proxy[cur] >= 0 => owed = 0
        /\ owed # 0 => (proxy[cur] = -1 /\ ret = -1)

C19_Witness ==
    /\ pc = "ret" /\ OnConnected /\ proxy[cur] >= 0 /\ ret = 0
    /\ ~answerNull /\ discards >= 1 /\ lastPkt.len > HeaderSize
    /\ owed = 0

\* C20: when virProxyOpenClientSocket returns, every descriptor it got
\* from socket() is closed except the one it returns, and after a failure
\* none is open; between two rounds none is open either.
C20_NoDescriptorLeak ==
    /\ InLoop => made \cap openFds = {}
    /\ (op = "init" /\ ~InLoop) => made \cap openFds \subseteq {opened}
    /\ OpenFailed => made \cap openFds = {}
    /\ opened >= 0 => opened \in made

C20_Witness ==
    /\ OpenFailed /\ io.connects >= 2 /\ made # {}
    /\ made \cap openFds = {}

====
